---- MODULE Spec2Model ----
(***************************************************************************)
(* cranlock: the dependency resolution of cranlock/lock.py (tree builder,  *)
(* graph merger, depth-first topological sorter, lock.main) and the        *)
(* command-line entry point of cranlock/main.py.                           *)
(*                                                                         *)
(* A Python dict is modelled as a sequence of [key, val] records without   *)
(* repeated keys (dicts iterate in insertion order); a Python set as a     *)
(* TLA+ set whose iteration order is a nondeterministic choice (the order  *)
(* of a set of strings depends on the hash seed of the process).           *)
(***************************************************************************)
EXTENDS Integers, Sequences, FiniteSets, TLC

\* The package identifiers of the model.
Packages == {"A", "B", "C"}

\* The longest list of direct dependencies a package page shows.
MaxDeps == 2

\* The longest list of requested packages.
MaxRoots == 2

\* The depth of nested calls at which the interpreter raises RecursionError
\* (sys.getrecursionlimit(), 1000 in CPython, scaled down).
MaxDepth == 4

\* The most lines lock.main writes to the output file.
MaxLines == 2

\* How many times lock.main is called in one process in SpecRuns.
MaxRuns == 2

\* How many times sort_dependency_graph is executed on one graph in SpecSort.
NumExecutions == 2

None == "None"

\* no exception has been raised
NoError == [kind |-> "None", msg |-> <<>>]

\* a function's return value; NoValue before it has returned
NoValue == [some |-> FALSE, value |-> <<>>]
Value(v) == [some |-> TRUE, value |-> v]

VARIABLES
    graph,      \* lock.py: the dict `graph`, a sequence of [key, val] with val a set
    visited,    \* sort_dependency_graph: the dict `visited`, node -> Mark
    output,     \* sort_dependency_graph: the list `output`
    vstack,     \* the active calls of visit: frames [node, rest]
    call,       \* the argument of the call of visit that is being entered
    sortpc,     \* where sort_dependency_graph is
    result,     \* what sort_dependency_graph returned (None before it returns)
    error,      \* the exception that left the running function (None if none)
    execution,  \* SpecSort: number of the current execution of the sorter
    prevResult, \* SpecSort: what the previous execution returned
    registry,   \* the package sites: what they answer for each package
    url_cache,  \* lock.py: the module-level dict `url_cache`, url -> response
    dependencies_cache, \* lock.py: the module-level dict `dependencies_cache`
    response,   \* get_info_table: the response it last used
    packages,   \* get_dependency_graph: the list `packages` (the roots)
    pairs,      \* get_dependency_graph: the (package, tree) pairs mapped so far
    tstack,     \* the active calls of get_all_dependencies: [package, deps, acc]
    tcall,      \* the argument of the call of get_all_dependencies being entered
    pc,         \* where lock.main is
    written,    \* the lines lock.main wrote to output_file
    run,        \* number of the current call of lock.main in this process
    calls,      \* how often get_dependencies was called per package in this run
    clipc,      \* main.py: where main is
    disk,       \* main.py: which of the three files exist on disk
    container,  \* main.py: whether a docker container was named
    bound,      \* main.py: what package_file, version_file, output_file are bound to
    closed,     \* main.py: the file objects that were closed
    exitStatus, \* main.py: the exit status of the process (None while it runs)
    printed     \* main.py: what main printed

sortVars == <<graph, visited, output, vstack, call, sortpc, result, error,
              execution, prevResult>>

resolveVars == <<registry, url_cache, dependencies_cache, response, packages,
                 pairs, tstack, tcall, pc, written, run, calls>>

sortVarsButError == <<graph, visited, output, vstack, call, sortpc, result,
                      execution, prevResult>>

cliVars == <<clipc, disk, container, bound, closed, exitStatus, printed>>

\* what main.py's main neither reads nor writes
notCli == <<graph, visited, output, vstack, call, sortpc, result, execution,
            prevResult, registry, url_cache, dependencies_cache, response,
            packages, pairs, tstack, tcall, pc, run, calls>>

vars == <<sortVars, resolveVars, cliVars>>

(***************************************************************************)
(* Python dicts as sequences of [key, val]                                 *)
(***************************************************************************)
Range(s) == {s[i] : i \in 1..Len(s)}

Keys(d) == {d[i].key : i \in 1..Len(d)}

KeyList(d) == [i \in 1..Len(d) |-> d[i].key]

HasKey(d, k) == \E i \in 1..Len(d) : d[i].key = k

Get(d, k) == d[CHOOSE i \in 1..Len(d) : d[i].key = k].val

\* d[k] = v: an existing key keeps its place, a new key goes last
Put(d, k, v) ==
    IF HasKey(d, k)
    THEN [i \in 1..Len(d) |-> IF d[i].key = k THEN [key |-> k, val |-> v] ELSE d[i]]
    ELSE Append(d, [key |-> k, val |-> v])

(***************************************************************************)
(* class Mark                                                              *)
(***************************************************************************)
Permanent == "Permanent"
Temporary == "Temporary"
Empty == "Empty"

\* visit, line 166
CycleError ==
    [kind |-> "Exception",
     msg |-> <<"Somehow, the dependency graph is not directed and acyclic">>]

(***************************************************************************)
(* The package sites (CRAN, Bioconductor): the environment of the program  *)
(***************************************************************************)
\* the lists of direct dependencies a package page may show
DepLists == UNION {[1..n -> Packages] : n \in 0..MaxDeps}

\* the lists of requested packages an input file may hold
RootLists == UNION {[1..n -> Packages] : n \in 0..MaxRoots}

\* a package nobody has asked the sites about yet
Unasked == [asked |-> FALSE, exists |-> FALSE, deps |-> <<>>]

\* what the sites may answer for a package; the answer is fixed once given
Answers ==
    {[asked |-> TRUE, exists |-> FALSE, deps |-> <<>>]}
    \cup {[asked |-> TRUE, exists |-> TRUE, deps |-> d] : d \in DepLists}

AnswersFor(p) == IF registry[p].asked THEN {registry[p]} ELSE Answers

NoResponse == [status |-> 0, deps |-> <<>>, run |-> 0]

\* requests.get(url): the page of an existing package, or a 404
Fetch(ans) ==
    [status |-> IF ans.exists THEN 200 ELSE 404, deps |-> ans.deps, run |-> run]

(***************************************************************************)
(* get_info_table and get_dependencies                                     *)
(***************************************************************************)
\* get_package_url: is_bioconductor_package answers the same for a package
\* every time it is asked, so the url is the package's own
get_package_url(package) == <<"https://cran.r-project.org/web/packages", package>>

\* line 65, `if url_cache.get(url, None)`: a stored response counts when it is
\* truthy, and a requests.Response is truthy when its status is below 400
CacheHit_anystatus(cache, url) == HasKey(cache, url)

CacheHit(cache, url) == HasKey(cache, url) /\ Get(cache, url).status < 400

\* line 71: `if response.status_code != 200: raise`
StatusRaises_never(resp) == FALSE

StatusRaises(resp) == resp.status # 200

\* line 72: Exception("Package {} does not exist".format(package))
PackageError_typed(package) ==
    [kind |-> "UnknownPackage", msg |-> <<"Package {} does not exist", package>>]

PackageError(package) ==
    [kind |-> "Exception", msg |-> <<"Package {} does not exist", package>>]

\* extract_name_and_version, lines 202-203, on a line with fewer than two columns
IndexError == [kind |-> "IndexError", msg |-> <<"list index out of range">>]

\* os.stat's answer to an argument that is no path
TypeError ==
    [kind |-> "TypeError",
     msg |-> <<"stat: path should be string, bytes, os.PathLike or integer">>]

\* the interpreter's answer to a call nested deeper than its recursion limit
RecursionError ==
    [kind |-> "RecursionError", msg |-> <<"maximum recursion depth exceeded">>]

(***************************************************************************)
(* Tree builder: get_all_dependencies                                      *)
(***************************************************************************)
\* dict(list of tuples): a repeated key keeps its first place and its last value
RECURSIVE DictFrom(_, _)
DictFrom(d, ps) ==
    IF ps = <<>> THEN d
    ELSE DictFrom(Put(d, Head(ps).key, Head(ps).val), Tail(ps))

dict(ps) == DictFrom(<<>>, ps)

\* a call of get_all_dependencies(package) hands `tree` back to its caller:
\* the reducer of the calling frame, or the map of get_dependency_graph
Return(stack, package, tree) ==
    IF stack = <<>>
    THEN /\ pairs' = Append(pairs, [key |-> package, val |-> tree])
         /\ tstack' = stack
         /\ pc' = "map"
    ELSE /\ tstack' = [stack EXCEPT ![Len(stack)].acc =
                          Append(@, [key |-> package, val |-> tree])]
         /\ pairs' = pairs
         /\ pc' = "body"

\* get_all_dependencies, lines 100-105, with get_dependencies and get_info_table
TreeCall ==
    /\ pc = "call"
    /\ tcall' = None
    /\ IF Len(tstack) >= MaxDepth
       THEN /\ error' = RecursionError
            /\ pc' = "failed"
            /\ UNCHANGED <<registry, url_cache, response, calls, tstack, pairs>>
       ELSE IF HasKey(dependencies_cache, tcall)
       THEN /\ Return(tstack, tcall, Get(dependencies_cache, tcall))
            /\ UNCHANGED <<registry, url_cache, response, calls, error>>
       ELSE \E ans \in AnswersFor(tcall) :
              LET url == get_package_url(tcall)
                  hit == CacheHit(url_cache, url)
                  resp == IF hit THEN Get(url_cache, url) ELSE Fetch(ans)
              IN /\ registry' = [registry EXCEPT ![tcall] = ans]
                 /\ calls' = [calls EXCEPT ![tcall] = @ + 1]
                 /\ url_cache' = IF hit THEN url_cache ELSE Put(url_cache, url, resp)
                 /\ response' = resp
                 /\ IF StatusRaises(resp)
                    THEN /\ error' = PackageError(tcall)
                         /\ pc' = "failed"
                         /\ UNCHANGED <<tstack, pairs>>
                    ELSE /\ tstack' = Append(tstack, [package |-> tcall,
                                                      deps |-> resp.deps,
                                                      acc |-> <<>>])
                         /\ pc' = "body"
                         /\ UNCHANGED <<error, pairs>>
    /\ UNCHANGED <<dependencies_cache, packages, written, run>>
    /\ UNCHANGED sortVarsButError
    /\ UNCHANGED cliVars

\* lines 108-110, the reducer: the next first-level dependency is expanded
TreeChild ==
    /\ pc = "body"
    /\ LET top == tstack[Len(tstack)] IN
         /\ Len(top.acc) < Len(top.deps)
         /\ tcall' = top.deps[Len(top.acc) + 1]
    /\ pc' = "call"
    /\ UNCHANGED <<registry, url_cache, dependencies_cache, response, packages,
                   pairs, tstack, written, run, calls>>
    /\ UNCHANGED sortVars
    /\ UNCHANGED cliVars

\* lines 108-110: the reducer is through, the dict of the tuples is returned
TreeReturn ==
    /\ pc = "body"
    /\ LET top == tstack[Len(tstack)] IN
         /\ Len(top.acc) = Len(top.deps)
         /\ Return(SubSeq(tstack, 1, Len(tstack) - 1), top.package, dict(top.acc))
    /\ UNCHANGED <<registry, url_cache, dependencies_cache, response, packages,
                   tcall, written, run, calls>>
    /\ UNCHANGED sortVars
    /\ UNCHANGED cliVars

(***************************************************************************)
(* Graph merger: add_to_graph                                              *)
(***************************************************************************)
RECURSIVE add_to_graph_shallow(_, _), ShallowItems(_, _, _)
ShallowItems(g, tree, i) ==
    IF i > Len(tree) THEN g
    ELSE LET dep == tree[i].key
             nesteds == tree[i].val
             g1 == IF ~HasKey(g, dep) THEN Put(g, dep, {}) ELSE g
         IN IF nesteds = <<>>
            THEN ShallowItems(g1, tree, i + 1)
            ELSE ShallowItems(Put(g1, dep, Get(g1, dep) \cup Keys(nesteds)), tree, i + 1)

add_to_graph_shallow(g, tree) == IF Len(tree) = 0 THEN g ELSE ShallowItems(g, tree, 1)

RECURSIVE add_to_graph(_, _), AddItems(_, _, _)
\* lines 120-131: the loop over dependency_tree.items(), from the i-th item on
AddItems(g, tree, i) ==
    IF i > Len(tree) THEN g
    ELSE LET dep == tree[i].key
             nesteds == tree[i].val
             g1 == IF ~HasKey(g, dep) THEN Put(g, dep, {}) ELSE g
         IN IF nesteds = <<>>
            THEN AddItems(g1, tree, i + 1)
            ELSE LET g2 == Put(g1, dep, Get(g1, dep) \cup Keys(nesteds))
                 IN AddItems(add_to_graph(g2, nesteds), tree, i + 1)

\* the graph after add_to_graph(graph, dependency_tree)
add_to_graph(g, tree) == IF Len(tree) = 0 THEN g ELSE AddItems(g, tree, 1)

(***************************************************************************)
(* get_dependency_graph and lock.main                                      *)
(***************************************************************************)
\* lock.main, line 212: the requested packages are read and
\* get_dependency_graph(packages) is called
LockMain ==
    /\ pc = "main"
    /\ packages' \in RootLists
    /\ pairs' = <<>>
    /\ pc' = "map"
    /\ UNCHANGED <<registry, url_cache, dependencies_cache, response, tstack,
                   tcall, written, run, calls>>
    /\ UNCHANGED sortVars
    /\ UNCHANGED cliVars

\* get_dependency_graph, line 137: the map reaches the next package
MapNext ==
    /\ pc = "map"
    /\ Len(pairs) < Len(packages)
    /\ tcall' = packages[Len(pairs) + 1]
    /\ pc' = "call"
    /\ UNCHANGED <<registry, url_cache, dependencies_cache, response, packages,
                   pairs, tstack, written, run, calls>>
    /\ UNCHANGED sortVars
    /\ UNCHANGED cliVars

\* get_dependency_graph, lines 137-141, and lock.main, line 213: the trees are
\* merged, the graph is returned and sort_dependency_graph(graph) is called
GraphReturn ==
    /\ pc = "map"
    /\ Len(pairs) = Len(packages)
    /\ graph' = add_to_graph(<<>>, dict(pairs))
    /\ sortpc' = "start"
    /\ pc' = "sort"
    /\ UNCHANGED <<registry, url_cache, dependencies_cache, response, packages,
                   pairs, tstack, tcall, written, run, calls>>
    /\ UNCHANGED <<visited, output, vstack, call, result, error, execution, prevResult>>
    /\ UNCHANGED cliVars

\* lock.main has returned or raised, and the process calls it again, for one
\* requested package: the locals of the last call are gone, the module-level
\* dicts are kept
ProcessAgain ==
    /\ pc \in {"done", "failed"}
    /\ run < MaxRuns
    /\ run' = run + 1
    /\ pc' = "map"
    /\ graph' = <<>>
    /\ visited' = <<>>
    /\ output' = <<>>
    /\ vstack' = <<>>
    /\ call' = None
    /\ sortpc' = "idle"
    /\ result' = NoValue
    /\ error' = NoError
    /\ packages' \in {<<p>> : p \in Packages}
    /\ pairs' = <<>>
    /\ tstack' = <<>>
    /\ tcall' = None
    /\ written' = <<>>
    /\ response' = NoResponse
    /\ calls' = [p \in Packages |-> 0]
    /\ UNCHANGED <<registry, url_cache, dependencies_cache, execution, prevResult>>
    /\ UNCHANGED cliVars

Header ==
    <<"# Generated from cranlock", "options(warn=2)",
      "options(Ncpus=parallel::detectCores())", "options(repos=...)">>

RECURSIVE InstallLines(_, _)
InstallLines(sorted, installable) ==
    IF sorted = <<>> THEN <<>>
    ELSE (IF Head(sorted) \in installable
          THEN <<<<"devtools::install_version", Head(sorted)>>>> ELSE <<>>)
         \o InstallLines(Tail(sorted), installable)

\* lock.main, lines 216-223: the header, then one line for every sorted package
\* that has a version and is no Bioconductor package (`installable`, which the
\* version file and the Bioconductor site decide)
MainWrite ==
    /\ pc = "sort"
    /\ sortpc = "returned"
    /\ \E installable \in SUBSET Range(result.value) :
         written' = Header \o InstallLines(result.value, installable)
    /\ pc' = "done"
    /\ UNCHANGED <<registry, url_cache, dependencies_cache, response, packages,
                   pairs, tstack, tcall, run, calls>>
    /\ UNCHANGED sortVars
    /\ UNCHANGED cliVars

(***************************************************************************)
(* Topological sorter                                                      *)
(***************************************************************************)
\* dict.fromkeys(graph.keys(), Mark.Empty)
fromkeys_stale(g) ==
    [i \in 1..Len(g) |->
        [key |-> g[i].key,
         val |-> IF HasKey(visited, g[i].key) THEN Get(visited, g[i].key) ELSE Empty]]

fromkeys(g) == [i \in 1..Len(g) |-> [key |-> g[i].key, val |-> Empty]]

\* get_first_unvisited: the first key, in the dict's order, whose mark is Empty
get_first_unvisited(v) ==
    IF \E i \in 1..Len(v) : v[i].val = Empty
    THEN v[CHOOSE i \in 1..Len(v) :
               /\ v[i].val = Empty
               /\ \A j \in 1..(i - 1) : v[j].val # Empty].key
    ELSE None

\* visit, lines 161-166: what the mark of the node makes the call do
VisitEntry_nocheck(mark) ==
    CASE mark = Permanent -> "return"
      [] mark = Temporary -> "return"
      [] OTHER -> "descend"

VisitEntry(mark) ==
    CASE mark = Permanent -> "return"
      [] mark = Temporary -> "raise"
      [] OTHER -> "descend"

\* visit, line 177: output.append(node)
AppendNode_prepend(out, node) == <<node>> \o out

AppendNode(out, node) == Append(out, node)

\* sort_dependency_graph, lines 182-184: a fresh `visited` and `output`
SortStart ==
    /\ sortpc = "start"
    /\ visited' = fromkeys(graph)
    /\ output' = <<>>
    /\ sortpc' = "loop"
    /\ UNCHANGED <<graph, vstack, call, result, error, execution, prevResult>>
    /\ UNCHANGED resolveVars
    /\ UNCHANGED cliVars

\* sort_dependency_graph, lines 186-194: the while loop's test, and the return
SortLoop ==
    /\ sortpc = "loop"
    /\ LET node == get_first_unvisited(visited) IN
         IF node = None
         THEN /\ sortpc' = "returned"
              /\ result' = Value(output)
              /\ call' = None
         ELSE /\ sortpc' = "call"
              /\ call' = node
              /\ result' = result
    /\ UNCHANGED <<graph, visited, output, vstack, error, execution, prevResult>>
    /\ UNCHANGED resolveVars
    /\ UNCHANGED cliVars

\* visit, lines 161-168: the entry of one call
VisitCall ==
    /\ sortpc = "call"
    /\ LET todo == VisitEntry(Get(visited, call)) IN
         CASE todo = "return" ->
                /\ sortpc' = "body"
                /\ UNCHANGED <<visited, vstack, error>>
           [] todo = "raise" ->
                /\ sortpc' = "raised"
                /\ error' = CycleError
                /\ UNCHANGED <<visited, vstack>>
           [] OTHER ->
                /\ visited' = Put(visited, call, Temporary)
                /\ vstack' = Append(vstack, [node |-> call, rest |-> Get(graph, call)])
                /\ sortpc' = "body"
                /\ error' = error
    /\ call' = None
    /\ UNCHANGED <<graph, output, result, execution, prevResult>>
    /\ UNCHANGED resolveVars
    /\ UNCHANGED cliVars

\* visit, lines 170-171: the next member of graph[node], in the set's own order
VisitChild ==
    /\ sortpc = "body"
    /\ vstack # <<>>
    /\ LET top == vstack[Len(vstack)] IN
         /\ top.rest # {}
         /\ \E child \in top.rest :
              /\ vstack' = [vstack EXCEPT ![Len(vstack)].rest = top.rest \ {child}]
              /\ call' = child
    /\ sortpc' = "call"
    /\ UNCHANGED <<graph, visited, output, result, error, execution, prevResult>>
    /\ UNCHANGED resolveVars
    /\ UNCHANGED cliVars

\* visit, lines 173-177, and line 190 when the call returns to the loop
VisitDone ==
    /\ sortpc = "body"
    /\ vstack # <<>>
    /\ LET top == vstack[Len(vstack)] IN
         /\ top.rest = {}
         /\ visited' = Put(visited, top.node, Permanent)
         /\ output' = AppendNode(output, top.node)
    /\ vstack' = SubSeq(vstack, 1, Len(vstack) - 1)
    /\ sortpc' = IF Len(vstack) = 1 THEN "loop" ELSE "body"
    /\ UNCHANGED <<graph, call, result, error, execution, prevResult>>
    /\ UNCHANGED resolveVars
    /\ UNCHANGED cliVars

\* sort_dependency_graph is called again on the same graph
SortAgain ==
    /\ pc = "sorter"
    /\ sortpc = "returned"
    /\ execution < NumExecutions
    /\ execution' = execution + 1
    /\ prevResult' = result
    /\ result' = NoValue
    /\ sortpc' = "start"
    /\ UNCHANGED <<graph, visited, output, vstack, call, error>>
    /\ UNCHANGED resolveVars
    /\ UNCHANGED cliVars

(***************************************************************************)
(* main.py: the command-line entry point                                   *)
(***************************************************************************)
Files == {"package_file", "version_file", "output_file"}

\* main is not running
CliIdle ==
    /\ clipc = "idle"
    /\ disk = [f \in Files |-> FALSE]
    /\ container = FALSE
    /\ bound = [f \in Files |-> "str"]
    /\ closed = {}
    /\ exitStatus = None
    /\ printed = <<>>

\* os.path.exists(x) for what the name f is bound to: a path is looked up on
\* disk, a file object makes os.stat raise TypeError
os_path_exists(d, f) ==
    IF bound[f] = "str" THEN (IF d[f] THEN "True" ELSE "False") ELSE "TypeError"

Lines(n) == [i \in 1..n |-> "line"]

\* lines 58-61: the package file must exist
CliVerify ==
    /\ clipc = "verify"
    /\ IF ~disk["package_file"]
       THEN /\ printed' = Append(printed, <<"Error: {} does not exist">>)
            /\ exitStatus' = 1
            /\ clipc' = "exited"
       ELSE /\ printed' = printed
            /\ exitStatus' = exitStatus
            /\ clipc' = "versions"
    /\ UNCHANGED <<disk, container, bound, closed, written, error>>
    /\ UNCHANGED notCli

\* lines 63-69 and get_package_versions: without a versions file the container
\* is asked; the shell's redirection may leave a versions file behind even
\* when the command fails
CliVersions ==
    /\ clipc = "versions"
    /\ IF disk["version_file"]
       THEN /\ clipc' = "open"
            /\ UNCHANGED <<disk, exitStatus, printed>>
       ELSE IF ~container
       THEN /\ printed' = Append(printed, <<"Error: you must specify a docker container">>)
            /\ exitStatus' = 1
            /\ clipc' = "exited"
            /\ disk' = disk
       ELSE \E returncode \in {0, 1}, created \in BOOLEAN :
              IF returncode # 0
              THEN \* lines 30-36: version_file is still bound to the path here
                   /\ printed' = Append(printed,
                                         <<"Error: could not get the package versions">>)
                   /\ LET d1 == [disk EXCEPT !["version_file"] = created]
                      IN disk' = IF os_path_exists(d1, "version_file") = "True"
                                 THEN [d1 EXCEPT !["version_file"] = FALSE] ELSE d1
                   /\ exitStatus' = 1
                   /\ clipc' = "exited"
              ELSE /\ created
                   /\ printed' = printed
                   /\ disk' = [disk EXCEPT !["version_file"] = TRUE]
                   /\ exitStatus' = exitStatus
                   /\ clipc' = "open"
    /\ UNCHANGED <<container, bound, closed, written, error>>
    /\ UNCHANGED notCli

\* lines 72-74: the three names are bound to file objects; opening the output
\* file for writing creates it, or empties it
CliOpen ==
    /\ clipc = "open"
    /\ bound' = [f \in Files |-> "file"]
    /\ disk' = [disk EXCEPT !["output_file"] = TRUE]
    /\ clipc' = "lock"
    /\ UNCHANGED <<container, closed, exitStatus, written, error, printed>>
    /\ UNCHANGED notCli

\* lines 76-77: lock.main returns, or raises, after it wrote some lines
CliLockMain ==
    /\ clipc = "lock"
    /\ \E n \in 0..MaxLines : written' = Lines(n)
    /\ \E raised \in {NoError, RecursionError, CycleError, IndexError} \cup
                     {PackageError(p) : p \in Packages} :
         /\ error' = raised
         /\ IF raised = NoError
            THEN /\ exitStatus' = 0
                 /\ clipc' = "exited"
            ELSE /\ exitStatus' = exitStatus
                 /\ clipc' = "except"
    /\ UNCHANGED <<disk, container, bound, closed, printed>>
    /\ UNCHANGED notCli

\* lines 78-90, the except block: the files are closed, then the versions file
\* and the output file are looked for, removed if found, and the process exits
\* with 1; an exception raised in the block ends the process with status 1 too
CliExcept ==
    /\ clipc = "except"
    /\ printed' = Append(printed, error.msg)
    /\ closed' = Files
    /\ LET ev == os_path_exists(disk, "version_file")
           eo == os_path_exists(disk, "output_file")
       IN IF ev = "TypeError"
          THEN /\ error' = TypeError
               /\ disk' = disk
          ELSE LET d1 == IF ev = "True"
                         THEN [disk EXCEPT !["version_file"] = FALSE] ELSE disk
               IN IF eo = "TypeError"
                  THEN /\ error' = TypeError
                       /\ disk' = d1
                  ELSE /\ error' = error
                       /\ disk' = IF eo = "True"
                                  THEN [d1 EXCEPT !["output_file"] = FALSE] ELSE d1
    /\ exitStatus' = 1
    /\ clipc' = "exited"
    /\ UNCHANGED <<container, bound, written>>
    /\ UNCHANGED notCli

(***************************************************************************)
(* SpecSort: sort_dependency_graph on every graph over Packages in which   *)
(* every member of a dependency set is a key (add_to_graph builds no       *)
(* other), in every key order.                                             *)
(***************************************************************************)
RECURSIVE Perms(_)
Perms(S) ==
    IF S = {} THEN {<<>>}
    ELSE UNION {{<<x>> \o p : p \in Perms(S \ {x})} : x \in S}

Graphs ==
    UNION {UNION {{[i \in 1..Len(ks) |-> [key |-> ks[i], val |-> f[ks[i]]]] :
                      f \in [K -> SUBSET K]} : ks \in Perms(K)} : K \in SUBSET Packages}

InitSort ==
    /\ graph \in Graphs
    /\ visited = <<>>
    /\ output = <<>>
    /\ vstack = <<>>
    /\ call = None
    /\ sortpc = "start"
    /\ result = NoValue
    /\ error = NoError
    /\ execution = 1
    /\ prevResult = NoValue
    /\ registry = [p \in Packages |-> Unasked]
    /\ url_cache = <<>>
    /\ dependencies_cache = <<>>
    /\ response = NoResponse
    /\ packages = <<>>
    /\ pairs = <<>>
    /\ tstack = <<>>
    /\ tcall = None
    /\ pc = "sorter"
    /\ written = <<>>
    /\ run = 1
    /\ calls = [p \in Packages |-> 0]
    /\ CliIdle

NextSort == SortStart \/ SortLoop \/ VisitCall \/ VisitChild \/ VisitDone \/ SortAgain

SpecSort == InitSort /\ [][NextSort]_vars

(***************************************************************************)
(* SpecResolve: one call of lock.main, on every list of requested packages *)
(* and every answer of the package sites.                                  *)
(***************************************************************************)
InitResolve ==
    /\ graph = <<>>
    /\ visited = <<>>
    /\ output = <<>>
    /\ vstack = <<>>
    /\ call = None
    /\ sortpc = "idle"
    /\ result = NoValue
    /\ error = NoError
    /\ execution = 1
    /\ prevResult = NoValue
    /\ registry = [p \in Packages |-> Unasked]
    /\ url_cache = <<>>
    /\ dependencies_cache = <<>>
    /\ response = NoResponse
    /\ packages = <<>>
    /\ pairs = <<>>
    /\ tstack = <<>>
    /\ tcall = None
    /\ pc = "main"
    /\ written = <<>>
    /\ run = 1
    /\ calls = [p \in Packages |-> 0]
    /\ CliIdle

NextResolve ==
    \/ LockMain \/ MapNext \/ TreeCall \/ TreeChild \/ TreeReturn \/ GraphReturn
    \/ SortStart \/ SortLoop \/ VisitCall \/ VisitChild \/ VisitDone
    \/ MainWrite

SpecResolve == InitResolve /\ [][NextResolve]_vars

(***************************************************************************)
(* SpecRuns: lock.main is called up to MaxRuns times in one process, the   *)
(* package sites showing at most one direct dependency per package.        *)
(***************************************************************************)
RunWorlds ==
    [Packages -> {a \in Answers : Len(a.deps) <= 1}]

InitRuns ==
    /\ graph = <<>>
    /\ visited = <<>>
    /\ output = <<>>
    /\ vstack = <<>>
    /\ call = None
    /\ sortpc = "idle"
    /\ result = NoValue
    /\ error = NoError
    /\ execution = 1
    /\ prevResult = NoValue
    /\ registry \in RunWorlds
    /\ url_cache = <<>>
    /\ dependencies_cache = <<>>
    /\ response = NoResponse
    /\ packages = <<>>
    /\ pairs = <<>>
    /\ tstack = <<>>
    /\ tcall = None
    /\ pc = "main"
    /\ written = <<>>
    /\ run = 1
    /\ calls = [p \in Packages |-> 0]
    /\ CliIdle

NextRuns == NextResolve \/ ProcessAgain

SpecRuns == InitRuns /\ [][NextRuns]_vars

(***************************************************************************)
(* SpecCli: main.py's main with or without each of the files and the       *)
(* container.                                                              *)
(***************************************************************************)
InitCli ==
    /\ graph = <<>>
    /\ visited = <<>>
    /\ output = <<>>
    /\ vstack = <<>>
    /\ call = None
    /\ sortpc = "idle"
    /\ result = NoValue
    /\ error = NoError
    /\ execution = 1
    /\ prevResult = NoValue
    /\ registry = [p \in Packages |-> Unasked]
    /\ url_cache = <<>>
    /\ dependencies_cache = <<>>
    /\ response = NoResponse
    /\ packages = <<>>
    /\ pairs = <<>>
    /\ tstack = <<>>
    /\ tcall = None
    /\ pc = "cli"
    /\ written = <<>>
    /\ run = 1
    /\ calls = [p \in Packages |-> 0]
    /\ clipc = "verify"
    /\ disk \in [Files -> BOOLEAN]
    /\ container \in BOOLEAN
    /\ bound = [f \in Files |-> "str"]
    /\ closed = {}
    /\ exitStatus = None
    /\ printed = <<>>

NextCli == CliVerify \/ CliVersions \/ CliOpen \/ CliLockMain \/ CliExcept

SpecCli == InitCli /\ [][NextCli]_vars

(***************************************************************************)
(* Spec: the sorter on a given graph, or one call of lock.main             *)
(***************************************************************************)
Init == InitSort \/ InitResolve

Next == NextSort \/ NextResolve

Spec == Init /\ [][Next]_vars

\* The interpreter runs the sorter to its end: it never stops between two steps.
SpecSortFair == SpecSort /\ WF_vars(NextSort)

(***************************************************************************)
(* Properties of the sorter                                                *)
(***************************************************************************)
RECURSIVE Grow(_, _)
Grow(g, S) ==
    LET T == S \cup UNION {Get(g, m) : m \in S}
    IN IF T = S THEN S ELSE Grow(g, T)

\* the nodes that n depends on, directly or not
Descendants(g, n) == Grow(g, Get(g, n))

HasCycle(g) == \E n \in Keys(g) : n \in Descendants(g, n)

Pos(s, x) == CHOOSE i \in 1..Len(s) : s[i] = x

IsOrderingOf(s, g) ==
    /\ Len(s) = Len(g)
    /\ Range(s) = Keys(g)
    /\ \A p \in Keys(g) : \A d \in Get(g, p) : Pos(s, d) < Pos(s, p)

SortEnded == sortpc \in {"returned", "raised"}

\* C1: on an acyclic graph whose dependency-set members are all keys,
\* sort_dependency_graph never raises and never stops half way, and what it
\* returns holds every key exactly once with every dependency before its
\* dependents, in whatever order the set members are explored.
C1_SortIsTopological ==
    ~HasCycle(graph) =>
        /\ sortpc # "raised"
        /\ error = NoError
        /\ (~SortEnded => ENABLED NextSort)
        /\ (sortpc = "returned" => IsOrderingOf(result.value, graph))

\* a returned ordering of three packages, the first key having dependencies
C1_Witness ==
    /\ sortpc = "returned"
    /\ ~HasCycle(graph)
    /\ Len(graph) = 3
    /\ \E p \in Keys(graph) : Cardinality(Get(graph, p)) = 2
    /\ \E p \in Keys(graph) : Get(graph, p) # {} /\ Pos(KeyList(graph), p) = 1

\* C2: on a graph with a cycle (a self-dependency included),
\* sort_dependency_graph never returns anything, and it ends by raising the
\* cycle error when it enters a node marked Temporary.
C2_CycleRaises ==
    /\ [](HasCycle(graph) =>
            /\ sortpc # "returned"
            /\ result = NoValue
            /\ (sortpc = "raised" => error = CycleError))
    /\ (HasCycle(graph) => <>(sortpc = "raised"))

\* the cycle error on a cycle of two or more, after some node was placed
C2_Witness ==
    /\ sortpc = "raised"
    /\ error = CycleError
    /\ HasCycle(graph)
    /\ \A n \in Keys(graph) : n \notin Get(graph, n)
    /\ output # <<>>

\* C8 (as stated): two executions of sort_dependency_graph on the same graph
\* return the identical sequence.
C8_SameSequence ==
    (execution > 1 /\ sortpc = "returned") => result = prevResult

\* C8 (amended): two executions on the same graph dict return orderings of
\* the same keys, each with dependencies first; they are identical when no
\* dependency set has more than one member, since the next unvisited node is
\* taken in the dict's insertion order and only the members of a set are
\* explored in the set's incidental order.
C8_SameUpToSetOrder ==
    (execution > 1 /\ sortpc = "returned") =>
        /\ IsOrderingOf(result.value, graph)
        /\ IsOrderingOf(prevResult.value, graph)
        /\ ((\A n \in Keys(graph) : Cardinality(Get(graph, n)) <= 1)
               => result = prevResult)

\* a second execution on a chain returned what the first did
C8_Witness ==
    /\ execution > 1
    /\ sortpc = "returned"
    /\ Len(graph) = 3
    /\ \A n \in Keys(graph) : Cardinality(Get(graph, n)) <= 1
    /\ \E n \in Keys(graph) : Get(graph, n) # {}
    /\ result = prevResult

(***************************************************************************)
(* Properties of the resolution run                                        *)
(***************************************************************************)
\* the direct dependencies the sites show for p
Direct(p) == Range(registry[p].deps)

RECURSIVE GrowDirect(_)
GrowDirect(S) ==
    LET T == S \cup UNION {Direct(p) : p \in S}
    IN IF T = S THEN S ELSE GrowDirect(T)

\* the requested packages and all they depend on, directly or not
Reachable == GrowDirect(Range(packages))

GraphReturned == pc \in {"sort", "done"}

\* C3 (as stated, for the runs that return a graph): when get_dependency_graph
\* returns, get_dependencies has been called at most once for each package
\* during the run.
C3_ProviderCalledOnce ==
    GraphReturned => \A p \in Packages : calls[p] <= 1

\* C4 (as stated): the nesting of get_all_dependencies never gets deeper than
\* the number of distinct packages, whatever the sites answer.
C4_DepthBounded ==
    Len(tstack) <= Cardinality(Packages)

\* C5: once the sites have reported a package as missing, lock.main has failed
\* with the error naming that package, no graph was returned, the sorter was
\* never started, nothing was returned by it and no line was written.
C5_MissingPackageStops ==
    (\E q \in Packages : registry[q].asked /\ ~registry[q].exists) =>
        /\ pc = "failed"
        /\ \E p \in Packages :
             /\ registry[p].asked /\ ~registry[p].exists
             /\ error = PackageError(p)
        /\ graph = <<>>
        /\ sortpc = "idle"
        /\ result = NoValue
        /\ written = <<>>

\* a dependency turned out missing after an earlier requested package was built
C5_Witness ==
    /\ pc = "failed"
    /\ error.kind = "Exception"
    /\ pairs # <<>>
    /\ Len(tstack) >= 1
    /\ written = <<>>

\* a package is among its own direct or indirect dependencies
ProviderCycle == \E p \in Packages : p \in GrowDirect(Direct(p))

MissingReported == \E p \in Packages : registry[p].asked /\ ~registry[p].exists

\* C6: as long as the sites show no cycle and no missing package,
\* get_dependency_graph does not fail, and the graph it returns is the sites'
\* relation on the reachable packages: its keys are the requested packages
\* and all they reach, each once, and the set of each key is the set of its
\* direct dependencies, all of them keys.
C6_GraphIsRelation ==
    (~ProviderCycle /\ ~MissingReported) =>
        /\ pc # "failed"
        /\ (GraphReturned =>
              /\ Keys(graph) = Reachable
              /\ Len(graph) = Cardinality(Keys(graph))
              /\ \A k \in Keys(graph) :
                   registry[k].exists /\ Get(graph, k) = Direct(k)
              /\ \A k \in Keys(graph) : Get(graph, k) \subseteq Keys(graph))

\* two requested packages, neither depending on the other, share a dependency
C6_Witness ==
    /\ pc = "sort"
    /\ Len(packages) = 2
    /\ packages[1] # packages[2]
    /\ packages[2] \notin Get(graph, packages[1])
    /\ packages[1] \notin Get(graph, packages[2])
    /\ Get(graph, packages[1]) \cap Get(graph, packages[2]) # {}

C9_CachesScopedToRun ==
    /\ \A i \in 1..Len(url_cache) : url_cache[i].val.run = run
    /\ dependencies_cache = <<>>
    /\ (response # NoResponse => response.run = run)

\* C9 (amended): the caches live as long as the process. dependencies_cache is
\* never written, so no tree is ever read from it; url_cache keeps every
\* response, and a later run reuses a stored response exactly when its status
\* is below 400: a response used in a run was fetched in that run or is the
\* stored page (status 200) of an earlier one.
C9_UrlCacheOutlivesRun ==
    /\ dependencies_cache = <<>>
    /\ \A i \in 1..Len(url_cache) : url_cache[i].val.run <= run
    /\ (response # NoResponse =>
          \/ response.run = run
          \/ /\ response.run < run
             /\ response.status = 200
             /\ \E i \in 1..Len(url_cache) : url_cache[i].val = response)

\* the second run ended after using a response the first run stored
C9_Witness ==
    /\ run = 2
    /\ response # NoResponse
    /\ response.run = 1
    /\ pc = "done"

\* C10 (as stated): when lock.main raised, main ends with the three files
\* closed, neither a versions file nor an output file on disk, and status 1.
C10_FailureCleansUp ==
    (clipc = "exited" /\ error # NoError) =>
        /\ closed = Files
        /\ ~disk["version_file"]
        /\ ~disk["output_file"]
        /\ exitStatus = 1

====
